---------------------------- MODULE Spec2Model ----------------------------
(***************************************************************************)
(* A model of the SocialAnalytics data-collection scripts                  *)
(* (src/dataCollection/main_youtube.py and src/dataCollection/test.py) and *)
(* of the two lookup services (api.py and DB_data_api.py).                 *)
(*                                                                         *)
(* Python strings are sequences of one-character strings, except channel   *)
(* identifiers, which are sequences of string pieces (see Identifiers).    *)
(* Python's None is the string "None" where the other values are strings   *)
(* or sequences of another shape, and a record field where they are not.   *)
(*                                                                         *)
(* The program is strictly sequential.  Each component has a specification *)
(* of its own over the shared variables:                                   *)
(*   SpecClassify  _determine_video_type / _is_short_duration              *)
(*   SpecResolve   get_channel_id and its two lookups                      *)
(*   SpecList      get_channel_videos                                      *)
(*   SpecAnalyze   analyze_channel (test.py) and analyze_and_print_stats   *)
(*   SpecService   GET /get_data of api.py and of DB_data_api.py           *)
(*   SpecMain      main (main_youtube.py)                                  *)
(*   SpecFormat    format_number                                           *)
(***************************************************************************)
EXTENDS Integers, Sequences, FiniteSets, TLC

VARIABLES
    pc,                 \* position of the running call
    duration,           \* _determine_video_type: contentDetails.duration
    live_details,       \* _determine_video_type: liveStreamingDetails
    broadcast_content,  \* _determine_video_type: liveBroadcastContent
    video_type,         \* _determine_video_type: the returned type
    identifier,         \* get_channel_id: its argument
    response,           \* get_channel_id: what the lookup it made answered
    channel_id,         \* get_channel_id: the returned value
    lookups,            \* the external lookups the running call has made
    raised,             \* whether the running call raised to its caller
    via,                \* get_channel_id: the branch that returned
    published_after,    \* get_channel_videos: the cutoff instant now - days
    fetched,            \* get_channel_videos: the entries of the pages fetched
    pages,              \* get_channel_videos: the number of pages fetched
    next_page_token,    \* get_channel_videos: the last page's continuation token
    failed,             \* get_channel_videos: the lookup that raised, if any
    videos,             \* the video list: the lister's result, the analysis's input
    grouped,            \* analyze_channel: how many videos the loop has grouped
    total_stats,        \* analyze_channel: overall_stats
    content_type_stats, \* analyze_channel: content_type_analysis
    engagement_by_type, \* analyze_and_print_stats: the rates it prints
    request_args,       \* get_data: request.args.get('channel_id')
    store,              \* get_data: the records of the "data" table or collection
    handler,            \* get_data: the position of each service's handler
    session,            \* get_data (api.py): the session variable
    db_calls,           \* get_data: the database calls each handler has made
    http_response,      \* get_data: what each handler answered
    printed,            \* main: the messages it has printed
    csv,                \* main: the rows in the --output file
    analysis,           \* main: how far analyze_and_print_stats(df) has come
    num,                \* format_number: its argument
    formatted           \* format_number: the returned string

classifyVars == <<duration, live_details, broadcast_content, video_type>>
resolveVars == <<identifier, response, channel_id, lookups, via>>
listVars == <<published_after, fetched, pages, next_page_token, failed>>
analyzeVars == <<grouped, total_stats, content_type_stats, engagement_by_type>>

serviceVars == <<request_args, store, handler, session, db_calls, http_response>>
mainVars == <<printed, csv, analysis>>
formatVars == <<num, formatted>>

vars == <<pc, raised, videos, classifyVars, resolveVars, listVars, analyzeVars,
          serviceVars, mainVars, formatVars>>

(***************************************************************************)
(* Bounds of the model.                                                    *)
(***************************************************************************)
MaxHours == 1
MaxMinutes == 2
MaxSeconds == 61
MaxSegments == 3
MaxTime == 1
MaxEntries == 3
MaxPages == 2
MaxVideos == 3
MaxPlainVideos == 6

(***************************************************************************)
(* Strings and decimal numbers.                                            *)
(***************************************************************************)
Digits == <<"0", "1", "2", "3", "4", "5", "6", "7", "8", "9">>

IsDigit(c) == \E i \in 1..10 : Digits[i] = c

DigitVal(c) == (CHOOSE i \in 1..10 : Digits[i] = c) - 1

\* str(n) for a natural number n
RECURSIVE Str(_)
Str(n) == IF n < 10 THEN <<Digits[n + 1]>>
          ELSE Str(n \div 10) \o <<Digits[(n % 10) + 1]>>

\* int(s) for a non-empty string of decimal digits (leading zeros allowed)
RECURSIVE Int_(_)
Int_(s) == IF s = <<>> THEN 0
           ELSE 10 * Int_(SubSeq(s, 1, Len(s) - 1)) + DigitVal(s[Len(s)])

\* s[from:] with a 1-based from
Drop(s, from) == SubSeq(s, from, Len(s))

\* the number of leading digits of s from position p on
RECURSIVE DigitRun(_, _)
DigitRun(s, p) == IF p <= Len(s) /\ IsDigit(s[p]) THEN 1 + DigitRun(s, p + 1)
                  ELSE 0

(***************************************************************************)
(* re.match(r'PT(\d+H)?(\d+M)?(\d+S)?', duration)                          *)
(*                                                                         *)
(* The match is anchored at the start only.  An optional group (\d+X)?     *)
(* takes the longest digit run at the position when the character after it *)
(* is X, and is skipped otherwise (a shorter run is followed by a digit,   *)
(* so backtracking finds nothing else).  A group is the matched text,      *)
(* <<>> when it did not take part.                                         *)
(***************************************************************************)
Group(s, p, unit) ==
    LET k == DigitRun(s, p)
    IN  IF k >= 1 /\ p + k <= Len(s) /\ s[p + k] = unit
        THEN SubSeq(s, p, p + k)
        ELSE <<>>

ReMatch(s) ==
    IF Len(s) >= 2 /\ s[1] = "P" /\ s[2] = "T"
    THEN LET g1 == Group(s, 3, "H")
             g2 == Group(s, 3 + Len(g1), "M")
             g3 == Group(s, 3 + Len(g1) + Len(g2), "S")
         IN  [matched |-> TRUE, g1 |-> g1, g2 |-> g2, g3 |-> g3]
    ELSE [matched |-> FALSE, g1 |-> <<>>, g2 |-> <<>>, g3 |-> <<>>]

\* int(match.group(i)[:-1]) if match.group(i) else 0
GroupInt(g) == IF g # <<>> THEN Int_(SubSeq(g, 1, Len(g) - 1)) ELSE 0

TotalSeconds(m) == GroupInt(m.g1) * 3600 + GroupInt(m.g2) * 60 + GroupInt(m.g3)

IsShortNoMatchTrue(d) ==
    LET m == ReMatch(d)
    IN  IF m.matched THEN TotalSeconds(m) <= 60 ELSE TRUE

IsShortStrict(d) ==
    LET m == ReMatch(d)
    IN  IF m.matched THEN TotalSeconds(m) < 60 ELSE FALSE

\* _is_short_duration
IsShortDuration(d) ==
    LET m == ReMatch(d)
    IN  IF m.matched THEN TotalSeconds(m) <= 60 ELSE FALSE

(***************************************************************************)
(* A dict or None: null for None, keys for the dict's keys.  Python's      *)
(* truth value of it is False for None and for the empty dict.             *)
(***************************************************************************)
NoneDict == [null |-> TRUE, keys |-> {}]
EmptyDict == [null |-> FALSE, keys |-> {}]
LiveDict == [null |-> FALSE, keys |-> {"actualStartTime"}]

Truthy(d) == ~d.null /\ d.keys # {}

\* _determine_video_type
DetermineVideoType(d, ld, bc) ==
    IF Truthy(ld) \/ bc \in {"live", "upcoming"} THEN "Live"
    ELSE IF IsShortDuration(d) THEN "Short"
    ELSE "Video"

(***************************************************************************)
(* The inputs of the classifier.  A well-formed duration is PT followed by *)
(* optional hours, minutes and seconds components; Absent marks a missing  *)
(* component, and a component may carry a leading zero.  The other strings *)
(* are well-formed ones damaged at the front or at the end, and ISO-8601   *)
(* durations with a day part.                                              *)
(***************************************************************************)
Absent == -1

Component(n, pad, unit) ==
    IF n = Absent THEN <<>>
    ELSE (IF pad THEN <<"0">> ELSE <<>>) \o Str(n) \o <<unit>>

Duration(h, m, s, pad) ==
    <<"P", "T">> \o Component(h, FALSE, "H") \o Component(m, FALSE, "M")
                 \o Component(s, pad, "S")

HoursDom == {Absent} \cup (0..MaxHours)
MinutesDom == {Absent} \cup (0..MaxMinutes)
SecondsDom == {Absent} \cup (0..MaxSeconds)

WellFormed ==
    {Duration(h, m, s, pad) : h \in HoursDom, m \in MinutesDom,
                              s \in SecondsDom, pad \in BOOLEAN}

\* whether d has the form PT[nH][nM][nS], decided on the text alone
IsWellFormed(d) == d \in WellFormed

Damaged ==
    {Drop(d, 2) : d \in WellFormed}                      \* "T..."
    \cup {Drop(d, 3) : d \in WellFormed}                 \* "", "1M30S", ...
    \cup {<<"P", "1", "D">> \o Drop(d, 2) : d \in WellFormed}  \* "P1DT..."
    \cup {<<"P", "1", "D">>, <<"P">>}
    \cup {d \o <<"1", "D">> : d \in WellFormed}          \* "PT...1D"
    \cup {d \o <<"1", "H">> : d \in WellFormed}          \* components out of order

Durations == WellFormed \cup Damaged

LiveDetailsDom == {NoneDict, EmptyDict, LiveDict}

\* snippet.get('liveBroadcastContent'): None when the field is missing
BroadcastDom == {"None", "none", "live", "upcoming"}

(***************************************************************************)
(* Channel identifiers.  An identifier is a sequence of string pieces, and *)
(* stands for their concatenation: "/" and "@" are the two characters, and *)
(* the other pieces are words without either.  A substring test for a      *)
(* pattern written with these pieces is then a test for a run of pieces.   *)
(***************************************************************************)
\* the least i with pat at s[i..], 0 when there is none
FirstIndex(s, pat) ==
    LET at == {i \in 1..(Len(s) - Len(pat) + 1) : SubSeq(s, i, i + Len(pat) - 1) = pat}
    IN  IF at = {} THEN 0 ELSE CHOOSE i \in at : \A j \in at : i <= j

\* pat in s
Contains(s, pat) == FirstIndex(s, pat) # 0

\* s.split(sep): the pieces between the occurrences of sep, left to right
RECURSIVE Split(_, _)
Split(s, sep) ==
    LET i == FirstIndex(s, sep)
    IN  IF i = 0 THEN <<s>>
        ELSE <<SubSeq(s, 1, i - 1)>> \o Split(Drop(s, i + Len(sep)), sep)

\* s.startswith(c) for a one-character c
StartsWith(s, c) == Len(s) >= 1 /\ s[1] = c

\* Optional[str]
None == [none |-> TRUE, str |-> <<>>]
Some(s) == [none |-> FALSE, str |-> s]

(***************************************************************************)
(* What an external lookup answers: execute() raises, or returns a dict    *)
(* without an 'items' key, or a dict whose 'items' lists channel ids.      *)
(***************************************************************************)
Responses ==
    {[kind |-> "raise", items |-> <<>>], [kind |-> "nokey", items |-> <<>>],
     [kind |-> "ok", items |-> <<>>], [kind |-> "ok", items |-> <<"UCa">>],
     [kind |-> "ok", items |-> <<"UCb", "UCa">>]}

NoResponse == [kind |-> "unused", items |-> <<>>]

\* the body of the try block of both lookups: exc when it raised
LookupBody(r) ==
    IF r.kind # "ok" THEN [exc |-> TRUE, ret |-> None]
    ELSE IF r.items # <<>> THEN [exc |-> FALSE, ret |-> Some(<<r.items[1]>>)]
    ELSE [exc |-> FALSE, ret |-> None]

LookupUncaught(api, arg, r) ==
    LET b == LookupBody(r)
    IN  [ret |-> b.ret, raised |-> b.exc, lookups |-> <<[api |-> api, arg |-> arg]>>]

\* try: ...execute() ... except Exception: print(...); return None
Lookup(api, arg, r) ==
    LET b == LookupBody(r)
    IN  [ret |-> IF b.exc THEN None ELSE b.ret, raised |-> FALSE,
         lookups |-> <<[api |-> api, arg |-> arg]>>]

\* _get_channel_id_from_username: channels().list(forUsername=username)
GetChannelIdFromUsername(username, r) == Lookup("channels.list", username, r)

\* _get_channel_id_from_handle: search().list(q='@' + handle)
GetChannelIdFromHandle(handle, r) == Lookup("search.list", <<"@">> \o handle, r)

Direct(ret) == [ret |-> ret, raised |-> FALSE, lookups |-> <<>>]

ChannelPat == <<"/", "channel", "/">>
CPat == <<"/", "c", "/">>
UserPat == <<"/", "user", "/">>
AtPat == <<"/", "@">>

GetChannelIdFlat(id, r) ==
    IF Contains(id, ChannelPat)
    THEN Direct(Some(Split(Split(id, ChannelPat)[2], <<"/">>)[1]))
             @@ [via |-> "channel"]
    ELSE IF Contains(id, CPat) \/ Contains(id, UserPat)
    THEN LET parts == Split(id, <<"/">>)
         IN  GetChannelIdFromUsername(parts[Len(parts)], r) @@ [via |-> "username"]
    ELSE IF Contains(id, AtPat)
    THEN GetChannelIdFromHandle(Split(Split(id, AtPat)[2], <<"/">>)[1], r)
             @@ [via |-> "handle"]
    ELSE IF StartsWith(id, "@")
    THEN GetChannelIdFromHandle(Drop(id, 2), r) @@ [via |-> "handle"]
    ELSE GetChannelIdFromUsername(id, r) @@ [via |-> "username"]

\* get_channel_id
GetChannelId(id, r) ==
    IF Contains(id, <<"youtube.com">>)
    THEN IF Contains(id, ChannelPat)
         THEN Direct(Some(Split(Split(id, ChannelPat)[2], <<"/">>)[1]))
                  @@ [via |-> "channel"]
         ELSE IF Contains(id, CPat) \/ Contains(id, UserPat)
         THEN LET parts == Split(id, <<"/">>)
              IN  GetChannelIdFromUsername(parts[Len(parts)], r) @@ [via |-> "username"]
         ELSE IF Contains(id, AtPat)
         THEN GetChannelIdFromHandle(Split(Split(id, AtPat)[2], <<"/">>)[1], r)
                  @@ [via |-> "handle"]
         ELSE Direct(None) @@ [via |-> "none"]
    ELSE IF StartsWith(id, "@")
    THEN GetChannelIdFromHandle(Drop(id, 2), r) @@ [via |-> "handle"]
    ELSE GetChannelIdFromUsername(id, r) @@ [via |-> "username"]

(***************************************************************************)
(* The identifiers tried: a head (nothing, a host with or without scheme,  *)
(* a bare name, a handle) followed by up to MaxSegments path segments,     *)
(* each a "/" and a word, the empty word included.                         *)
(***************************************************************************)
Heads ==
    {<<>>, <<"youtube.com">>, <<"https:", "/", "/", "www.", "youtube.com">>,
     <<"x">>, <<"@", "x">>}

Words == {<<>>, <<"c">>, <<"channel">>, <<"user">>, <<"x">>, <<"@", "x">>, <<"UC1">>}

RECURSIVE Paths(_)
Paths(n) ==
    IF n = 0 THEN {<<>>}
    ELSE Paths(n - 1) \cup
         {p \o <<"/">> \o w : p \in Paths(n - 1), w \in Words}

Identifiers == {h \o p : h \in Heads, p \in Paths(MaxSegments)}

(***************************************************************************)
(* The aggregation.  A video is a record of its type and its views, likes  *)
(* and comments; its video_id is its place in the list.  A number that the *)
(* program rounds to two decimals is kept in hundredths.  Python's floats  *)
(* are modelled by exact arithmetic: round(x, 2) rounds the exact quotient *)
(* to the nearest hundredth, a tie going to the even one.                  *)
(***************************************************************************)
Types == {"Video", "Short", "Live"}

\* get_empty_type_stats, and each entry of the initial content_type_stats
GetEmptyTypeStats ==
    [count |-> 0, total_views |-> 0, total_likes |-> 0, total_comments |-> 0,
     average_views |-> 0, average_likes |-> 0, average_comments |-> 0,
     engagement_rate |-> 0, top_videos |-> <<>>]

RECURSIVE SumOf(_, _)
SumOf(field, vs) ==
    IF vs = <<>> THEN 0 ELSE Head(vs)[field] + SumOf(field, Tail(vs))

\* total_stats
TotalStats(vs) ==
    [total_videos |-> Len(vs), total_views |-> SumOf("views", vs),
     total_likes |-> SumOf("likes", vs), total_comments |-> SumOf("comments", vs)]

\* v put into a list sorted by views, descending, behind every video with
\* at least its views
RECURSIVE InsertDesc(_, _)
InsertDesc(sorted, v) ==
    IF sorted = <<>> THEN <<v>>
    ELSE IF Head(sorted).views >= v.views
    THEN <<Head(sorted)>> \o InsertDesc(Tail(sorted), v)
    ELSE <<v>> \o sorted

\* sorted(vs, key=lambda x: x.get('views', 0), reverse=True): stable
RECURSIVE SortedByViewsDesc(_)
SortedByViewsDesc(vs) ==
    IF vs = <<>> THEN <<>>
    ELSE InsertDesc(SortedByViewsDesc(SubSeq(vs, 1, Len(vs) - 1)), vs[Len(vs)])

TopN == 5

KeepAll(vs) == vs

\* vs[:5]
Truncate(vs) == SubSeq(vs, 1, IF Len(vs) < TopN THEN Len(vs) ELSE TopN)

GroupVideoWithoutLikes(stats, video) ==
    [stats EXCEPT !.count = @ + 1,
                  !.total_views = @ + video.views,
                  !.total_comments = @ + video.comments,
                  !.top_videos = Truncate(SortedByViewsDesc(Append(@, video)))]

\* the body of the loop over the videos, on the stats of the video's type
GroupVideo(stats, video) ==
    [stats EXCEPT !.count = @ + 1,
                  !.total_views = @ + video.views,
                  !.total_likes = @ + video.likes,
                  !.total_comments = @ + video.comments,
                  !.top_videos = Truncate(SortedByViewsDesc(Append(@, video)))]

\* n / d rounded to the nearest integer, a tie to the even one (d > 0, n >= 0)
RoundDiv(n, d) ==
    LET q == n \div d
        r == n % d
    IN  IF 2 * r < d THEN q
        ELSE IF 2 * r > d THEN q + 1
        ELSE IF q % 2 = 0 THEN q ELSE q + 1

\* round(a / b * factor, 2) in hundredths; exc when b is zero
Ratio(a, b, factor) ==
    IF b = 0 THEN [exc |-> TRUE, val |-> 0]
    ELSE [exc |-> FALSE, val |-> RoundDiv(a * factor * 100, b)]

TypeAveragesUnguarded(stats) ==
    LET av == Ratio(stats.total_views, stats.count, 1)
        al == Ratio(stats.total_likes, stats.count, 1)
        ac == Ratio(stats.total_comments, stats.count, 1)
        er == Ratio(stats.total_likes + stats.total_comments, stats.total_views, 100)
    IN  [exc |-> av.exc \/ al.exc \/ ac.exc \/ er.exc,
         stats |-> [stats EXCEPT !.average_views = av.val,
                                 !.average_likes = al.val,
                                 !.average_comments = ac.val,
                                 !.engagement_rate = er.val]]

\* the body of the loop over content_type_stats.values()
TypeAverages(stats) ==
    IF stats.count > 0
    THEN LET av == Ratio(stats.total_views, stats.count, 1)
             al == Ratio(stats.total_likes, stats.count, 1)
             ac == Ratio(stats.total_comments, stats.count, 1)
             er == IF stats.total_views > 0
                   THEN Ratio(stats.total_likes + stats.total_comments,
                              stats.total_views, 100)
                   ELSE [exc |-> FALSE, val |-> 0]
         IN  [exc |-> av.exc \/ al.exc \/ ac.exc \/ er.exc,
              stats |-> [stats EXCEPT !.average_views = av.val,
                                      !.average_likes = al.val,
                                      !.average_comments = ac.val,
                                      !.engagement_rate = er.val]]
    ELSE [exc |-> FALSE, stats |-> stats]

\* `not channel_id`: None and the empty string are false
ChannelIdFalsy(c) == c.none \/ c.str = <<>>

(***************************************************************************)
(* analyze_and_print_stats (main_youtube.py).  A pandas float is a number  *)
(* (in hundredths), inf or NaN: dividing by zero raises nothing there, it  *)
(* gives inf, and NaN for 0 / 0.  The mean of a group skips its NaN, is    *)
(* NaN when nothing is left and inf when an inf is.  A type without videos *)
(* is not in the groupby and has no rate ("absent").                       *)
(***************************************************************************)
Num(x) == [kind |-> "num", val |-> x]
Inf == [kind |-> "inf", val |-> 0]
NaN == [kind |-> "nan", val |-> 0]
NoRate == [kind |-> "absent", val |-> 0]

\* ((df['likes'] + df['comments']) / df['views'] * 100).round(2), one row
RowEngagementRate(v) ==
    IF v.views = 0
    THEN IF v.likes + v.comments = 0 THEN NaN ELSE Inf
    ELSE Num(RoundDiv((v.likes + v.comments) * 100 * 100, v.views))

IsNum(x) == x.kind = "num"
IsInf(x) == x.kind = "inf"
RECURSIVE SumVal(_)
SumVal(xs) == IF xs = <<>> THEN 0 ELSE Head(xs).val + SumVal(Tail(xs))

\* .mean().round(2) of one group's rates
MeanRate(rates) ==
    LET nums == SelectSeq(rates, IsNum)
    IN  IF SelectSeq(rates, IsInf) # <<>> THEN Inf
        ELSE IF nums = <<>> THEN NaN
        ELSE Num(RoundDiv(SumVal(nums), Len(nums)))

VideosOfType(vs, t) == LET Test(v) == v.type = t IN SelectSeq(vs, Test)

\* df.groupby('type')['engagement_rate'].mean().round(2)
EngagementByType(vs) ==
    [t \in Types |->
        LET group == VideosOfType(vs, t)
        IN  IF group = <<>> THEN NoRate
            ELSE MeanRate([i \in 1..Len(group) |-> RowEngagementRate(group[i])])]

(***************************************************************************)
(* The video lists analysed: short lists of videos of every type with and  *)
(* without views and engagement, and longer lists of plain videos of two   *)
(* types, long enough for a type to have more than TopN videos.            *)
(***************************************************************************)
StatsDom ==
    {[views |-> 0, likes |-> 0, comments |-> 0], [views |-> 0, likes |-> 1, comments |-> 0],
     [views |-> 2, likes |-> 0, comments |-> 1], [views |-> 3, likes |-> 1, comments |-> 1]}

Kinds == {[type |-> t] @@ st : t \in Types, st \in StatsDom}

PlainKinds ==
    {[type |-> t, views |-> v, likes |-> 0, comments |-> 0] :
        t \in {"Video", "Short"}, v \in {1, 2}}

RECURSIVE ListsOver(_, _)
ListsOver(kinds, n) ==
    IF n = 0 THEN {<<>>}
    ELSE ListsOver(kinds, n - 1) \cup
         {Append(l, k) : l \in {x \in ListsOver(kinds, n - 1) : Len(x) = n - 1},
                         k \in kinds}

WithIds(l) == [i \in 1..Len(l) |-> [video_id |-> i] @@ l[i]]

VideoLists ==
    {WithIds(l) : l \in ListsOver(Kinds, MaxVideos) \cup ListsOver(PlainKinds, MaxPlainVideos)}

(***************************************************************************)
(* The lookup services.  api.py and DB_data_api.py each route GET          *)
(* /get_data to a get_data of their own over the same "data" records.  A   *)
(* record is a dict with its channel_id and one more field.  A response is *)
(* a status and a JSON body; the body is {"error": message}, {"data":      *)
(* results} or a stored document itself.  A database call either returns   *)
(* or raises; str(e) of what it raised is the name of the call.            *)
(***************************************************************************)
Services == {"api", "DB_data_api"}

MaxDocs == 2

ChannelIds == {<<"UC1">>, <<"UC2">>}

Documents == [channel_id : ChannelIds, title : {"a", "b"}]

RECURSIVE SeqsUpTo(_, _)
SeqsUpTo(S, n) ==
    IF n = 0 THEN {<<>>}
    ELSE SeqsUpTo(S, n - 1) \cup
         {Append(l, x) : l \in {y \in SeqsUpTo(S, n - 1) : Len(y) = n - 1}, x \in S}

Stores == SeqsUpTo(Documents, MaxDocs)

\* request.args.get('channel_id'): None when the parameter is not there
RequestArgs == {None, Some(<<>>)} \cup {Some(c) : c \in ChannelIds}

NotAnswered == [status |-> 0, body |-> [kind |-> "none"]]

\* jsonify({"error": message}), status
ErrorResponse(message, status) ==
    [status |-> status, body |-> [kind |-> "error", error |-> message]]

\* an exception that get_data does not catch: Flask answers 500 itself
Unhandled == [status |-> 500, body |-> [kind |-> "unhandled"]]

ParameterIsNone(c) == c.none

\* `not channel_id`: true of None and of the empty string
ParameterMissing(c) == c.none \/ c.str = <<>>

\* the records of the store with this channel_id, in the store's order
Matching(st, c) == LET Test(d) == d.channel_id = c.str IN SelectSeq(st, Test)

\* session.execute(query, [channel_id]) and the loop over its rows
Results(st, c) == Matching(st, c)

\* return jsonify({"data": results})
DataResponse(results) == [status |-> 200, body |-> [kind |-> "data", data |-> results]]

\* collection.find({"channel_id": channel_id})
Find(st, c) == [data |-> [documents |-> Matching(st, c)]]

\* return results["data"]["documents"][0], the IndexError caught
FirstDocument(results) ==
    IF results.data.documents = <<>>
    THEN ErrorResponse("list index out of range", 500)
    ELSE [status |-> 200,
          body |-> [kind |-> "document", document |-> results.data.documents[1]]]

FinallyAlways(sess, calls, resp, down) ==
    [session |-> "shutdown", calls |-> Append(calls, "shutdown"),
     response |-> IF down THEN resp ELSE Unhandled]

\* finally: if session: session.shutdown(); down is whether shutdown returns
Finally(sess, calls, resp, down) ==
    IF sess # "None"
    THEN [session |-> "shutdown", calls |-> Append(calls, "shutdown"),
          response |-> IF down THEN resp ELSE Unhandled]
    ELSE [session |-> sess, calls |-> calls, response |-> resp]

(***************************************************************************)
(* The variables of the components that are not running.                   *)
(***************************************************************************)
IdleClassify ==
    /\ duration = <<>>
    /\ live_details = NoneDict
    /\ broadcast_content = "None"
    /\ video_type = "None"

IdleResolve ==
    /\ identifier = <<>>
    /\ response = NoResponse
    /\ channel_id = None
    /\ lookups = <<>>
    /\ via = "none"

IdleList ==
    /\ published_after = [sec |-> 0, micro |-> 0]
    /\ fetched = <<>>
    /\ pages = 0
    /\ next_page_token = "None"
    /\ failed = "none"

IdleAnalyze ==
    /\ grouped = 0
    /\ total_stats = TotalStats(<<>>)
    /\ content_type_stats = [t \in Types |-> GetEmptyTypeStats]
    /\ engagement_by_type = [t \in Types |-> NoRate]

IdleService ==
    /\ request_args = None
    /\ store = <<>>
    /\ handler = [s \in Services |-> "idle"]
    /\ session = "None"
    /\ db_calls = [s \in Services |-> <<>>]
    /\ http_response = [s \in Services |-> NotAnswered]

IdleMain ==
    /\ printed = <<>>
    /\ csv = "None"
    /\ analysis = "none"

IdleFormat ==
    /\ num = 0
    /\ formatted = "None"

InitClassify ==
    /\ pc = "classify"
    /\ duration \in Durations
    /\ live_details \in LiveDetailsDom
    /\ broadcast_content \in BroadcastDom
    /\ video_type = "None"
    /\ raised = FALSE
    /\ videos = <<>>
    /\ IdleResolve
    /\ IdleList
    /\ IdleAnalyze
    /\ IdleService
    /\ IdleMain
    /\ IdleFormat

\* one call of _determine_video_type
determine_video_type ==
    /\ pc = "classify"
    /\ video_type' = DetermineVideoType(duration, live_details, broadcast_content)
    /\ pc' = "classified"
    /\ UNCHANGED <<duration, live_details, broadcast_content, raised, videos,
                   resolveVars, listVars, analyzeVars,
                   serviceVars, mainVars, formatVars>>

NextClassify == determine_video_type

SpecClassify == InitClassify /\ [][NextClassify]_vars

InitResolve ==
    /\ pc = "resolve"
    /\ identifier \in Identifiers
    /\ response = NoResponse
    /\ channel_id = None
    /\ lookups = <<>>
    /\ raised = FALSE
    /\ via = "none"
    /\ videos = <<>>
    /\ IdleClassify
    /\ IdleList
    /\ IdleAnalyze
    /\ IdleService
    /\ IdleMain
    /\ IdleFormat

\* one call of get_channel_id; r is what the lookup answers if one is made
get_channel_id ==
    /\ pc = "resolve"
    /\ \E r \in Responses :
         LET res == GetChannelId(identifier, r)
         IN  /\ channel_id' = res.ret
             /\ lookups' = res.lookups
             /\ raised' = res.raised
             /\ via' = res.via
             /\ response' = IF res.lookups = <<>> THEN NoResponse ELSE r
    /\ pc' = "resolved"
    /\ UNCHANGED <<identifier, videos, classifyVars, listVars, analyzeVars,
                   serviceVars, mainVars, formatVars>>

NextResolve == get_channel_id

SpecResolve == InitResolve /\ [][NextResolve]_vars

(***************************************************************************)
(* Timestamps.  An instant is a second sec and a microsecond micro of it.  *)
(* The date and time fields of an ISO timestamp all have a fixed width, so *)
(* the text up to the seconds is modelled by the second as two digits.     *)
(* datetime.isoformat() writes the microseconds, as a point and six        *)
(* digits, only when they are not zero; the API's publishedAt has whole    *)
(* seconds and ends in Z.                                                  *)
(***************************************************************************)
Pad(s, width) == [i \in 1..(width - Len(s)) |-> "0"] \o s

IsoFormat(t) ==
    Pad(Str(t.sec), 2) \o
    (IF t.micro = 0 THEN <<>> ELSE <<".">> \o Pad(Str(t.micro), 6))

\* (datetime.utcnow() - timedelta(days=days)).isoformat() + 'Z'
PublishedAfterText(t) == IsoFormat(t) \o <<"Z">>

\* item['snippet']['publishedAt'] of an entry published at second sec
PublishedAt(sec) == Pad(Str(sec), 2) \o <<"Z">>

\* ord(c) for the characters of a timestamp
Ord(c) == IF c = "." THEN 46 ELSE IF c = "Z" THEN 90 ELSE 48 + DigitVal(c)

\* a < b on str: the first differing character decides, a proper prefix is less
RECURSIVE StrLess(_, _)
StrLess(a, b) ==
    IF b = <<>> THEN FALSE
    ELSE IF a = <<>> THEN TRUE
    ELSE IF a[1] = b[1] THEN StrLess(Tail(a), Tail(b))
    ELSE Ord(a[1]) < Ord(b[1])

(***************************************************************************)
(* get_video_details, as far as the lister reads it: the dict of the       *)
(* video, or {} when the lookup gave no item or raised (it catches).       *)
(***************************************************************************)
GetVideoDetails(entry) ==
    IF entry.details = "item"
    THEN [empty |-> FALSE, published_at |-> entry.publishedAt]
    ELSE [empty |-> TRUE, published_at |-> <<>>]

\* video_published < published_after: the entry is skipped
SkipOlder(entry, cutoff) == StrLess(entry.publishedAt, cutoff)

\* the for loop over one page's items
RECURSIVE ProcessItems(_, _, _)
ProcessItems(vs, items, cutoff) ==
    IF items = <<>> THEN vs
    ELSE LET item == Head(items)
             video_details == GetVideoDetails(item)
         IN  IF SkipOlder(item, cutoff) THEN ProcessItems(vs, Tail(items), cutoff)
             ELSE IF ~video_details.empty
             THEN ProcessItems(
                      Append(vs, [video_id |-> item.video_id,
                                  published_at |-> video_details.published_at]),
                      Tail(items), cutoff)
             ELSE ProcessItems(vs, Tail(items), cutoff)

ReturnEmptyOnException(vs) == <<>>

\* except Exception: print(...), then return videos
ReturnOnException(vs) == vs

(***************************************************************************)
(* The playlist's entries as the API serves them: entry number n of the    *)
(* playlist has video id n, a publication second, and the answer its       *)
(* details lookup will get.  A page holds at most maxResults entries.      *)
(***************************************************************************)
maxResults == 50

Entry(n, sec, details) ==
    [video_id |-> n, published |-> sec, publishedAt |-> PublishedAt(sec),
     details |-> details]

DetailsDom == {"item", "empty", "raise"}

RECURSIVE PageItems(_, _)
PageItems(first, n) ==
    IF n = 0 THEN {<<>>}
    ELSE {<<Entry(first, sec, d)>> \o rest :
              sec \in 0..MaxTime, d \in DetailsDom, rest \in PageItems(first + 1, n - 1)}

Cutoffs == [sec : 0..MaxTime, micro : {0, 500000}]

InitList ==
    /\ pc = "list"
    /\ published_after \in Cutoffs
    /\ fetched = <<>>
    /\ pages = 0
    /\ next_page_token = "None"
    /\ failed = "none"
    /\ videos = <<>>
    /\ raised = FALSE
    /\ IdleClassify
    /\ IdleResolve
    /\ IdleAnalyze
    /\ IdleService
    /\ IdleMain
    /\ IdleFormat

\* get_channel_videos up to the loop: the channels().list lookup
channel_lookup ==
    /\ pc = "list"
    /\ \/ /\ failed' = "channel"                 \* execute() raised
          /\ videos' = ReturnOnException(videos)
          /\ pc' = "listed"
       \/ /\ failed' = failed                    \* not response['items']
          /\ videos' = videos
          /\ pc' = "listed"
       \/ /\ failed' = failed                    \* the uploads playlist is known
          /\ videos' = videos
          /\ pc' = "paging"
    /\ UNCHANGED <<published_after, fetched, pages, next_page_token, raised,
                   classifyVars, resolveVars, analyzeVars,
                   serviceVars, mainVars, formatVars>>

\* one turn of the while loop: a page is fetched and its items are read
fetch_page ==
    /\ pc = "paging"
    /\ \/ /\ failed' = "page"                    \* execute() raised
          /\ videos' = ReturnOnException(videos)
          /\ pc' = "listed"
          /\ UNCHANGED <<fetched, pages, next_page_token>>
       \/ \E n \in 0..(MaxEntries - Len(fetched)), token \in {"None", "token"} :
            \E items \in PageItems(Len(fetched) + 1, n) :
              /\ n <= maxResults
              /\ pages + 1 = MaxPages => token = "None"
              /\ videos' = ProcessItems(videos, items, PublishedAfterText(published_after))
              /\ fetched' = fetched \o items
              /\ pages' = pages + 1
              /\ next_page_token' = token
              /\ pc' = IF token = "None" THEN "listed" ELSE "paging"
              /\ failed' = failed
    /\ UNCHANGED <<published_after, raised, classifyVars, resolveVars, analyzeVars,
                   serviceVars, mainVars, formatVars>>

NextList == channel_lookup \/ fetch_page

SpecList == InitList /\ [][NextList]_vars

(***************************************************************************)
(* analyze_channel (test.py) on what get_channel_id and get_channel_videos *)
(* gave it, and analyze_and_print_stats (main_youtube.py) on the same      *)
(* list, which main() calls only with a channel id and a non-empty list.   *)
(***************************************************************************)
InitAnalyze ==
    /\ pc = "analyze"
    /\ channel_id \in {None, Some(<<>>), Some(<<"UC1">>)}
    /\ videos \in (IF ChannelIdFalsy(channel_id) THEN {<<>>} ELSE VideoLists)
    /\ raised = FALSE
    /\ identifier = <<>>
    /\ response = NoResponse
    /\ lookups = <<>>
    /\ via = "none"
    /\ IdleClassify
    /\ IdleList
    /\ IdleAnalyze
    /\ IdleService
    /\ IdleMain
    /\ IdleFormat

\* analyze_channel up to the loop: the error return, total_stats, the zero stats
analyze_begin ==
    /\ pc = "analyze"
    /\ IF ChannelIdFalsy(channel_id)
       THEN /\ pc' = "error"
            /\ UNCHANGED <<grouped, total_stats, content_type_stats>>
       ELSE /\ pc' = "grouping"
            /\ grouped' = 0
            /\ total_stats' = TotalStats(videos)
            /\ content_type_stats' = [t \in Types |-> GetEmptyTypeStats]
    /\ UNCHANGED <<raised, videos, engagement_by_type, classifyVars, resolveVars,
                   listVars,
                   serviceVars, mainVars, formatVars>>

\* one turn of the loop over the videos
group_video ==
    /\ pc = "grouping"
    /\ grouped < Len(videos)
    /\ LET video == videos[grouped + 1]
       IN  content_type_stats' =
               [content_type_stats EXCEPT ![video.type] = GroupVideo(@, video)]
    /\ grouped' = grouped + 1
    /\ UNCHANGED <<pc, raised, videos, total_stats, engagement_by_type, classifyVars,
                   resolveVars, listVars,
                   serviceVars, mainVars, formatVars>>

\* the loop over the types' stats, and the return of the document
type_averages ==
    /\ pc = "grouping"
    /\ grouped = Len(videos)
    /\ content_type_stats' = [t \in Types |-> TypeAverages(content_type_stats[t]).stats]
    /\ raised' = \E t \in Types : TypeAverages(content_type_stats[t]).exc
    /\ pc' = "analyzed"
    /\ UNCHANGED <<videos, grouped, total_stats, engagement_by_type, classifyVars,
                   resolveVars, listVars,
                   serviceVars, mainVars, formatVars>>

\* analyze_and_print_stats, as far as the engagement rates it prints
analyze_and_print_stats ==
    /\ pc = "analyze"
    /\ ~ChannelIdFalsy(channel_id)
    /\ videos # <<>>
    /\ engagement_by_type' = EngagementByType(videos)
    /\ pc' = "printed"
    /\ UNCHANGED <<raised, videos, grouped, total_stats, content_type_stats,
                   classifyVars, resolveVars, listVars,
                   serviceVars, mainVars, formatVars>>

NextAnalyze == analyze_begin \/ group_video \/ type_averages \/ analyze_and_print_stats

SpecAnalyze == InitAnalyze /\ [][NextAnalyze]_vars

(***************************************************************************)
(* One GET /get_data request put to both services over the same store.     *)
(* The two handlers run in processes of their own and share nothing but    *)
(* the store, which they only read; each database call is one step.        *)
(***************************************************************************)
InitService ==
    /\ pc = "serve"
    /\ request_args \in RequestArgs
    /\ store \in Stores
    /\ handler = [s \in Services |-> "request"]
    /\ session = "None"
    /\ db_calls = [s \in Services |-> <<>>]
    /\ http_response = [s \in Services |-> NotAnswered]
    /\ raised = FALSE
    /\ videos = <<>>
    /\ IdleClassify
    /\ IdleResolve
    /\ IdleList
    /\ IdleAnalyze
    /\ IdleMain
    /\ IdleFormat

\* the handler of svc answers resp
Respond(svc, resp) ==
    /\ http_response' = [http_response EXCEPT ![svc] = resp]
    /\ handler' = [handler EXCEPT ![svc] = "responded"]

\* the handler of svc makes the database call named call
Call(svc, call) == db_calls' = [db_calls EXCEPT ![svc] = Append(@, call)]

\* get_data up to its try block: the parameter test, then the query text
\* (api.py) or the collection name (DB_data_api.py), which call nothing
get_data_request(svc) ==
    /\ handler[svc] = "request"
    /\ IF ParameterMissing(request_args)
       THEN Respond(svc, ErrorResponse("channel_id parameter is required", 400))
       ELSE /\ handler' = [handler EXCEPT ![svc] = "try"]
            /\ UNCHANGED http_response
    /\ UNCHANGED <<pc, raised, videos, request_args, store, session, db_calls,
                   classifyVars, resolveVars, listVars, analyzeVars, mainVars,
                   formatVars>>

\* api.py: session = db.connect()
api_connect ==
    /\ handler["api"] = "try"
    /\ \/ LET fin == Finally(session, Append(db_calls["api"], "connect"),
                             ErrorResponse("connect", 500), TRUE)
          IN  /\ db_calls' = [db_calls EXCEPT !["api"] = fin.calls]
              /\ session' = fin.session
              /\ Respond("api", fin.response)
       \/ /\ Call("api", "connect")
          /\ session' = "open"
          /\ handler' = [handler EXCEPT !["api"] = "execute"]
          /\ UNCHANGED http_response
    /\ UNCHANGED <<pc, raised, videos, request_args, store, classifyVars,
                   resolveVars, listVars, analyzeVars, mainVars, formatVars>>

\* api.py: session.execute(query, [channel_id]), the results, the finally clause
api_execute ==
    /\ handler["api"] = "execute"
    /\ \E down \in BOOLEAN, resp \in {ErrorResponse("execute", 500),
                                      DataResponse(Results(store, request_args))} :
         LET fin == Finally(session, Append(db_calls["api"], "execute"), resp, down)
         IN  /\ db_calls' = [db_calls EXCEPT !["api"] = fin.calls]
             /\ session' = fin.session
             /\ Respond("api", fin.response)
    /\ UNCHANGED <<pc, raised, videos, request_args, store, classifyVars,
                   resolveVars, listVars, analyzeVars, mainVars, formatVars>>

\* DB_data_api.py: collection = db.collection(collection_name)
db_collection ==
    /\ handler["DB_data_api"] = "try"
    /\ Call("DB_data_api", "collection")
    /\ \/ Respond("DB_data_api", ErrorResponse("collection", 500))
       \/ /\ handler' = [handler EXCEPT !["DB_data_api"] = "find"]
          /\ UNCHANGED http_response
    /\ UNCHANGED <<pc, raised, videos, request_args, store, session, classifyVars,
                   resolveVars, listVars, analyzeVars, mainVars, formatVars>>

\* DB_data_api.py: collection.find(...) and the return of its first document
db_find ==
    /\ handler["DB_data_api"] = "find"
    /\ Call("DB_data_api", "find")
    /\ \/ Respond("DB_data_api", ErrorResponse("find", 500))
       \/ Respond("DB_data_api", FirstDocument(Find(store, request_args)))
    /\ UNCHANGED <<pc, raised, videos, request_args, store, session, classifyVars,
                   resolveVars, listVars, analyzeVars, mainVars, formatVars>>

NextService ==
    \/ \E svc \in Services : get_data_request(svc)
    \/ api_connect
    \/ api_execute
    \/ db_collection
    \/ db_find

SpecService == InitService /\ [][NextService]_vars

(***************************************************************************)
(* main (main_youtube.py): get_channel_id, get_channel_videos, the CSV     *)
(* file, analyze_and_print_stats.  The rows of the DataFrame are the       *)
(* videos; --days is a window that datetime can subtract from now.  What   *)
(* main prints is kept as the sequence of its messages.  df.to_csv and the *)
(* analysis work on the file system and on pandas, and either may raise.   *)
(***************************************************************************)
MainIdentifiers ==
    {<<"youtube.com", "/", "channel", "/", "UC1">>, <<"youtube.com", "/", "channel", "/">>,
     <<"youtube.com">>, <<"@", "x">>}

SaveAlways(vs) == [stop |-> FALSE, message |-> "Raw data saved", csv |-> vs]

\* if not videos: print(...); return, and otherwise df.to_csv(args.output)
SaveOrStop(vs) ==
    IF vs = <<>>
    THEN [stop |-> TRUE, message |-> "No videos found", csv |-> "None"]
    ELSE [stop |-> FALSE, message |-> "Raw data saved", csv |-> vs]

InitMain ==
    /\ pc = "main"
    /\ identifier \in MainIdentifiers
    /\ response = NoResponse
    /\ channel_id = None
    /\ lookups = <<>>
    /\ via = "none"
    /\ raised = FALSE
    /\ videos = <<>>
    /\ published_after \in {c \in Cutoffs : c.sec = MaxTime}
    /\ fetched = <<>>
    /\ pages = 0
    /\ next_page_token = "None"
    /\ failed = "none"
    /\ printed = <<>>
    /\ csv = "None"
    /\ analysis = "none"
    /\ IdleClassify
    /\ IdleAnalyze
    /\ IdleService
    /\ IdleFormat

\* main up to the call of get_channel_videos
main_get_channel_id ==
    /\ pc = "main"
    /\ \E r \in Responses :
         LET res == GetChannelId(identifier, r)
         IN  /\ channel_id' = res.ret
             /\ lookups' = res.lookups
             /\ raised' = res.raised
             /\ via' = res.via
             /\ response' = IF res.lookups = <<>> THEN NoResponse ELSE r
             /\ IF res.raised
                THEN /\ printed' = <<"Analyzing channel">>
                     /\ pc' = "done"
                ELSE IF ChannelIdFalsy(res.ret)
                THEN /\ printed' = <<"Analyzing channel", "Could not find channel ID">>
                     /\ pc' = "stopped"
                ELSE /\ printed' = <<"Analyzing channel", "Fetching videos">>
                     /\ pc' = "list"
    /\ UNCHANGED <<identifier, videos, csv, analysis, classifyVars, listVars,
                   analyzeVars, serviceVars, formatVars>>

\* main after get_channel_videos returned, up to the call of the analysis;
\* written is whether df.to_csv returns
main_save ==
    /\ pc = "listed"
    /\ \E written \in BOOLEAN :
         LET save == SaveOrStop(videos)
         IN  IF save.stop
             THEN /\ printed' = Append(printed, save.message)
                  /\ pc' = "stopped"
                  /\ UNCHANGED <<csv, raised>>
             ELSE IF written
             THEN /\ csv' = save.csv
                  /\ printed' = Append(printed, save.message)
                  /\ pc' = "saved"
                  /\ UNCHANGED raised
             ELSE /\ raised' = TRUE
                  /\ pc' = "done"
                  /\ UNCHANGED <<csv, printed>>
    /\ UNCHANGED <<videos, analysis, classifyVars, resolveVars, listVars,
                   analyzeVars, serviceVars, formatVars>>

\* analyze_and_print_stats(df) and the end of main
main_analyze ==
    /\ pc = "saved"
    /\ \E outcome \in {"returned", "raised"} :
         /\ analysis' = outcome
         /\ raised' = (outcome = "raised")
    /\ pc' = "done"
    /\ UNCHANGED <<videos, printed, csv, classifyVars, resolveVars, listVars,
                   analyzeVars, serviceVars, formatVars>>

NextMain == main_get_channel_id \/ channel_lookup \/ fetch_page \/ main_save \/ main_analyze

SpecMain == InitMain /\ [][NextMain]_vars

(***************************************************************************)
(* format_number.  num / d is the double nearest to the quotient, and      *)
(* the format .1f writes the decimal nearest to that double, a tie going   *)
(* to the even digit.  The quotient is k / 1000, k / 10^6 or k / 10^9, so  *)
(* it is at least 10^-9 away from a tie between two tenths unless it is on *)
(* one, and the double is much nearer to it than that: the double decides  *)
(* the digit only when the quotient is on a tie, by the side of it the     *)
(* double is on.                                                           *)
(***************************************************************************)
\* the number of binary digits of n >= 1
RECURSIVE BitLen(_)
BitLen(n) == IF n < 2 THEN 1 ELSE 1 + BitLen(n \div 2)

Mantissa == 53

\* the remainder and the last digit after k more binary digits of r / d
RECURSIVE BinaryDigits(_, _, _, _)
BinaryDigits(r, d, k, last) ==
    IF k = 0 THEN [rem |-> r, last |-> last]
    ELSE BinaryDigits((2 * r) % d, d, k - 1, (2 * r) \div d)

\* where the double n / d lies with regard to the quotient (n >= d)
DoubleSide(n, d) ==
    LET q == n \div d
        after == BinaryDigits(n % d, d, Mantissa - BitLen(q), q % 2)
    IN  IF after.rem = 0 THEN "exact"
        ELSE IF 2 * after.rem < d THEN "below"
        ELSE IF 2 * after.rem > d THEN "above"
        ELSE IF after.last = 0 THEN "below" ELSE "above"

\* round(n / d, 1) in tenths, as .1f rounds it
Tenths(n, d) ==
    LET unit == d \div 10
        t == n \div unit
        rest == n % unit
        side == DoubleSide(n, d)
    IN  IF 2 * rest < unit THEN t
        ELSE IF 2 * rest > unit THEN t + 1
        ELSE IF side = "below" THEN t
        ELSE IF side = "above" THEN t + 1
        ELSE IF t % 2 = 0 THEN t ELSE t + 1

\* f"{n/d:.1f}"
Fixed1(n, d) == LET t == Tenths(n, d) IN Str(t \div 10) \o <<".">> \o Str(t % 10)

\* format_number
FormatNumber(n) ==
    IF n >= 1000000000 THEN Fixed1(n, 1000000000) \o <<"B">>
    ELSE IF n >= 1000000 THEN Fixed1(n, 1000000) \o <<"M">>
    ELSE IF n >= 1000 THEN Fixed1(n, 1000) \o <<"K">>
    ELSE Str(n)

(***************************************************************************)
(* The numbers formatted: every number up to MaxSmall, and for each        *)
(* divisor the multiples of a twentieth of it (the tenths and the ties     *)
(* between them) from the divisor on and below the next divisor, with      *)
(* their neighbours, and the specification's examples.                     *)
(***************************************************************************)
MaxSmall == 1100
MaxTwentieths == 40
MaxBelow == 3

Around(x) == {x - 1, x, x + 1}

Nums ==
    (0..MaxSmall)
    \cup UNION {Around(k * (d \div 20)) :
                    d \in {1000, 1000000, 1000000000}, k \in 20..MaxTwentieths}
    \cup UNION {Around((20000 - j) * (d \div 20)) : d \in {1000, 1000000}, j \in 0..MaxBelow}
    \cup {999, 1500, 2500000, 1200000000}

InitFormat ==
    /\ pc = "format"
    /\ num \in Nums
    /\ formatted = "None"
    /\ raised = FALSE
    /\ videos = <<>>
    /\ IdleClassify
    /\ IdleResolve
    /\ IdleList
    /\ IdleAnalyze
    /\ IdleService
    /\ IdleMain

\* one call of format_number
format_number ==
    /\ pc = "format"
    /\ formatted' = FormatNumber(num)
    /\ pc' = "formatted"
    /\ UNCHANGED <<num, raised, videos, classifyVars, resolveVars, listVars,
                   analyzeVars, serviceVars, mainVars>>

NextFormat == format_number

SpecFormat == InitFormat /\ [][NextFormat]_vars

(***************************************************************************)
(* What the specification says of a duration, read off the components the  *)
(* string was written from and not off the parser.                         *)
(***************************************************************************)
Val(n) == IF n = Absent THEN 0 ELSE n

WellFormedTable ==
    {<<Duration(h, m, s, pad), Val(h) * 3600 + Val(m) * 60 + Val(s)>> :
        h \in HoursDom, m \in MinutesDom, s \in SecondsDom, pad \in BOOLEAN}

SecondsOf(d) == (CHOOSE p \in WellFormedTable : p[1] = d)[2]

StartsWithPT(d) == Len(d) >= 2 /\ d[1] = "P" /\ d[2] = "T"

\* the longest prefix of d that has the form PT[nH][nM][nS]
LongestWellFormedPrefix(d) ==
    LET ks == {k \in 0..Len(d) : IsWellFormed(SubSeq(d, 1, k))}
    IN  SubSeq(d, 1, CHOOSE k \in ks : \A j \in ks : j <= k)

\* neither live-streaming details nor a live or upcoming broadcast status
NoLive == live_details = NoneDict /\ broadcast_content \notin {"live", "upcoming"}

(***************************************************************************)
(* C1: whenever live-streaming details are present (not None) or the       *)
(* broadcast status is live or upcoming, _determine_video_type returns     *)
(* Live, whatever the duration.                                            *)
(***************************************************************************)
C1_LiveWheneverPresent ==
    (pc = "classified"
        /\ (live_details # NoneDict \/ broadcast_content \in {"live", "upcoming"}))
    => video_type = "Live"

C3_MalformedIsShort ==
    (pc = "classified" /\ NoLive /\ ~IsWellFormed(duration))
    => video_type = "Short"

(***************************************************************************)
(* C3 as amended: with no live indicator, a duration that does not start   *)
(* with PT is classified as a Video, and a malformed duration that starts  *)
(* with PT is classified by the total of its longest prefix of the form    *)
(* PT[nH][nM][nS] (Short when that total is at most 60, Video above).      *)
(***************************************************************************)
C3_MalformedByPrefix ==
    (pc = "classified" /\ NoLive /\ ~IsWellFormed(duration))
    => IF StartsWithPT(duration)
       THEN video_type =
                (IF SecondsOf(LongestWellFormedPrefix(duration)) <= 60
                 THEN "Short" ELSE "Video")
       ELSE video_type = "Video"

\* P1D, which does not start with PT, came out a Video
C3_Witness ==
    /\ pc = "classified"
    /\ NoLive
    /\ duration = <<"P", "1", "D">>
    /\ video_type = "Video"

(***************************************************************************)
(* The resolver's rules in the specification's words: the segment after a  *)
(* pattern, the trailing segment, and what a lookup is expected to give.   *)
(***************************************************************************)
\* the text from the end of the first pat in s up to the next "/"
SegmentAfter(s, pat) ==
    LET rest == Drop(s, FirstIndex(s, pat) + Len(pat))
        i == FirstIndex(rest, <<"/">>)
    IN  IF i = 0 THEN rest ELSE SubSeq(rest, 1, i - 1)

\* the text after the last "/" of s
TrailingSegment(s) ==
    LET at == {i \in 1..Len(s) : s[i] = "/"}
    IN  IF at = {} THEN s ELSE Drop(s, (CHOOSE i \in at : \A j \in at : j <= i) + 1)

\* the first item's channel id, or not found
FirstOrNone(r) ==
    IF r.kind = "ok" /\ r.items # <<>> THEN Some(<<r.items[1]>>) ELSE None

Verbatim(seg) == [ret |-> Some(seg), lookups |-> <<>>]

ByUsername(name) ==
    [ret |-> FirstOrNone(response),
     lookups |-> <<[api |-> "channels.list", arg |-> name]>>]

ByHandle(handle) ==
    [ret |-> FirstOrNone(response),
     lookups |-> <<[api |-> "search.list", arg |-> <<"@">> \o handle]>>]

NotFoundNoLookup == [ret |-> None, lookups |-> <<>>]

Outcome == [ret |-> channel_id, lookups |-> lookups]

UrlRules(id, otherwise) ==
    IF Contains(id, ChannelPat) THEN Verbatim(SegmentAfter(id, ChannelPat))
    ELSE IF Contains(id, CPat) \/ Contains(id, UserPat)
    THEN ByUsername(TrailingSegment(id))
    ELSE IF Contains(id, AtPat) THEN ByHandle(SegmentAfter(id, AtPat))
    ELSE otherwise

NameRules(id) ==
    IF StartsWith(id, "@") THEN ByHandle(Drop(id, 2)) ELSE ByUsername(id)

(***************************************************************************)
(* C4 as written: the five rules are tried in order on the identifier      *)
(* alone, whether or not it contains youtube.com: /channel/ gives the next *)
(* segment with no lookup, /c/ or /user/ a username lookup of the trailing *)
(* segment, /@ a handle search, a leading @ a handle search of the rest,   *)
(* and anything else a username lookup of the whole string.                *)
(***************************************************************************)
C4_FiveRulesOnAnyIdentifier ==
    pc = "resolved" => Outcome = UrlRules(identifier, NameRules(identifier))

(***************************************************************************)
(* C4 as amended: the three URL rules (/channel/, then /c/ or /user/, then *)
(* /@; the first match wins) are tried only on an identifier containing    *)
(* youtube.com, and such an identifier that matches none of them gives     *)
(* not-found without a lookup; an identifier without youtube.com is a      *)
(* handle when it starts with @ and a username otherwise.                  *)
(***************************************************************************)
C4_RulesBehindHostTest ==
    pc = "resolved"
    => Outcome = (IF Contains(identifier, <<"youtube.com">>)
                  THEN UrlRules(identifier, NotFoundNoLookup)
                  ELSE NameRules(identifier))

\* a channel URL gave its id with no lookup
C4_Witness ==
    /\ pc = "resolved"
    /\ identifier = <<"https:", "/", "/", "www.", "youtube.com", "/", "channel", "/", "UC1">>
    /\ channel_id = Some(<<"UC1">>)
    /\ lookups = <<>>

(***************************************************************************)
(* C5: a call that resolves by username or by handle makes exactly one     *)
(* lookup, never raises, returns not-found when the lookup raised or gave  *)
(* no items, and the first item's channel id otherwise.                    *)
(***************************************************************************)
C5_OneLookupNeverRaises ==
    (pc = "resolved" /\ via \in {"username", "handle"})
    => /\ Len(lookups) = 1
       /\ ~raised
       /\ (response.kind # "ok" \/ response.items = <<>>) => channel_id = None
       /\ (response.kind = "ok" /\ response.items # <<>>)
              => channel_id = Some(<<response.items[1]>>)

\* a handle search raised and the call returned not-found
C5_Witness ==
    /\ pc = "resolved"
    /\ via = "handle"
    /\ response.kind = "raise"
    /\ Len(lookups) = 1
    /\ channel_id = None
    /\ ~raised

(***************************************************************************)
(* The lister's window in the specification's words: an entry published at *)
(* a whole second is on or after the cutoff instant when its second is     *)
(* later, or is the cutoff's second and the cutoff has no microseconds.    *)
(***************************************************************************)
OnOrAfter(entry, t) ==
    entry.published > t.sec \/ (entry.published = t.sec /\ t.micro = 0)

InWindowWithDetails(entry) ==
    OnOrAfter(entry, published_after) /\ entry.details = "item"

VideoIds(vs) == [i \in 1..Len(vs) |-> vs[i].video_id]

\* no lookup of the call raised: not the channel's, no page's, no video's
NoCallFailed ==
    failed = "none" /\ \A i \in 1..Len(fetched) : fetched[i].details # "raise"

(***************************************************************************)
(* C6: when no external call fails, get_channel_videos stops at a page     *)
(* without continuation token and returns, in playlist order, exactly the  *)
(* fetched entries published on or after the cutoff now - days whose       *)
(* details lookup gave an item.                                            *)
(***************************************************************************)
C6_ExactlyTheWindow ==
    (pc = "listed" /\ NoCallFailed)
    => /\ VideoIds(videos) = VideoIds(SelectSeq(fetched, InWindowWithDetails))
       /\ next_page_token = "None"

(***************************************************************************)
(* C7 as written: when the channel lookup or a page fetch raises,          *)
(* get_channel_videos returns an empty sequence and does not raise.        *)
(***************************************************************************)
C7_FailureGivesEmpty ==
    (pc = "listed" /\ failed # "none") => (videos = <<>> /\ ~raised)

(***************************************************************************)
(* C7 as amended: when the channel lookup or a page fetch raises,          *)
(* get_channel_videos does not raise and returns the videos collected from *)
(* the pages fetched before: none when no page had been fetched.           *)
(***************************************************************************)
C7_FailureKeepsCollected ==
    /\ [][(failed = "none" /\ failed' # "none")
            => (pc' = "listed" /\ ~raised' /\ videos' = videos)]_vars
    /\ []((pc = "listed" /\ failed # "none" /\ pages = 0) => videos = <<>>)

\* a page fetch raised after an earlier page had contributed a video
C7_Witness ==
    /\ pc = "listed"
    /\ failed = "page"
    /\ pages = 1
    /\ videos # <<>>
    /\ ~raised

(***************************************************************************)
(* The aggregates in the specification's words, computed from the video    *)
(* list and not from the running sums.                                     *)
(***************************************************************************)
ZeroAggregate ==
    [count |-> 0, total_views |-> 0, total_likes |-> 0, total_comments |-> 0,
     average_views |-> 0, average_likes |-> 0, average_comments |-> 0,
     engagement_rate |-> 0, top_videos |-> <<>>]

ZeroTotals ==
    [total_videos |-> 0, total_views |-> 0, total_likes |-> 0, total_comments |-> 0]

\* round((likes + comments) / views * 100, 2) of a type's videos, in
\* hundredths, and 0 when their views sum to 0
RateFromTotals(t) ==
    LET group == VideosOfType(videos, t)
        views == SumOf("views", group)
        engagements == SumOf("likes", group) + SumOf("comments", group)
    IN  IF views > 0 THEN RoundDiv(engagements * 10000, views) ELSE 0

\* a comes before b in a stable sort by views, descending
Before(a, b) ==
    a.views > b.views \/ (a.views = b.views /\ a.video_id < b.video_id)

\* the first n of the stable descending sort of vs
FirstOfStableSort(vs, n) ==
    LET Place(v) == 1 + Cardinality({j \in 1..Len(vs) : Before(vs[j], v)})
        len == IF Len(vs) < n THEN Len(vs) ELSE n
    IN  [k \in 1..len |-> vs[CHOOSE i \in 1..Len(vs) : Place(vs[i]) = k]]

(***************************************************************************)
(* C8: analyze_channel does not fail on an empty video list and returns    *)
(* overall totals of 0 and, for each of Video, Short and Live, count 0,    *)
(* sums, means and engagement rate 0 and no top videos; in any list a type *)
(* without videos has these zero values.                                   *)
(***************************************************************************)
C8_TypesWithoutVideosAreZero ==
    pc = "analyzed"
    => /\ ~raised
       /\ DOMAIN content_type_stats = {"Video", "Short", "Live"}
       /\ \A t \in {"Video", "Short", "Live"} :
            VideosOfType(videos, t) = <<>> => content_type_stats[t] = ZeroAggregate
       /\ videos = <<>> => total_stats = ZeroTotals

\* the document for a resolved channel with no videos
C8_Witness ==
    /\ pc = "analyzed"
    /\ ~ChannelIdFalsy(channel_id)
    /\ videos = <<>>
    /\ \A t \in Types : content_type_stats[t] = ZeroAggregate
    /\ ~raised

(***************************************************************************)
(* C9: in the JSON aggregator and in the console analysis alike, a type's  *)
(* reported engagement rate is round((total_likes + total_comments) /      *)
(* total_views * 100, 2) when the type's views sum is above 0 and exactly  *)
(* 0 when it is 0, and nothing is divided by zero.                         *)
(***************************************************************************)
C9_RateFromTotalsEverywhere ==
    /\ pc = "analyzed"
         => /\ ~raised
            /\ \A t \in Types : content_type_stats[t].engagement_rate = RateFromTotals(t)
    /\ pc = "printed"
         => \A t \in Types :
              VideosOfType(videos, t) # <<>>
                  => engagement_by_type[t] = Num(RateFromTotals(t))

(***************************************************************************)
(* C10: after every insertion, each type's top_videos has at most 5        *)
(* entries, is sorted by views descending with ties in discovery order,    *)
(* and is the first 5 of the stable descending sort of the videos of that  *)
(* type grouped so far.                                                    *)
(***************************************************************************)
C10_TopFiveOfStableSort ==
    pc \in {"grouping", "analyzed"}
    => \A t \in Types :
         LET top == content_type_stats[t].top_videos
             seen == VideosOfType(SubSeq(videos, 1, grouped), t)
         IN  /\ Len(top) <= 5
             /\ \A k \in 1..(Len(top) - 1) : Before(top[k], top[k + 1])
             /\ top = FirstOfStableSort(seen, 5)

\* the sixth video of a type went to the head of the list and one was dropped
C10_Witness ==
    /\ pc = "grouping"
    /\ \E t \in Types :
         /\ content_type_stats[t].count = 6
         /\ Len(content_type_stats[t].top_videos) = 5
         /\ content_type_stats[t].top_videos[1].video_id = 6
         /\ content_type_stats[t].top_videos[2].views = content_type_stats[t].top_videos[3].views

(***************************************************************************)
(* The lookup services in the specification's words.                       *)
(***************************************************************************)
BothResponded == \A svc \in {"api", "DB_data_api"} : handler[svc] = "responded"

NoChannelIdGiven == request_args.none \/ Len(request_args.str) = 0

\* the stored records of the requested channel
RecordsOfChannel == {store[i] : i \in {j \in 1..Len(store) : store[j].channel_id = request_args.str}}

(***************************************************************************)
(* C11: in both lookup services a request whose channel_id parameter is    *)
(* missing or empty is answered with status 400 and an error body, and at  *)
(* no point of its handling is a database call (collection, find, connect, *)
(* execute) made.                                                          *)
(***************************************************************************)
C11_NoDatabaseCallWithoutChannelId ==
    NoChannelIdGiven
    => \A svc \in {"api", "DB_data_api"} :
         /\ db_calls[svc] = <<>>
         /\ session = "None"
         /\ handler[svc] = "responded"
              => /\ http_response[svc].status = 400
                 /\ http_response[svc].body.kind = "error"

\* both services refused an empty channel_id over a store that holds records
C11_Witness ==
    /\ ~request_args.none
    /\ request_args.str = <<>>
    /\ store # <<>>
    /\ BothResponded
    /\ \A svc \in Services : http_response[svc].status = 400

(***************************************************************************)
(* C12: the two services answer alike: 200 with the stored document's      *)
(* contents when the store holds a record of the channel_id, 500 with      *)
(* {"error": message} on any lookup failure, the store holding no record   *)
(* of the channel_id being one; two 200 answers to the same request carry  *)
(* the same payload.                                                       *)
(***************************************************************************)
C12_BindingsEquivalent ==
    (BothResponded /\ ~NoChannelIdGiven)
    => /\ \A svc \in {"api", "DB_data_api"} :
            /\ http_response[svc].status \in {200, 500}
            /\ http_response[svc].status = 200
                 => /\ http_response[svc].body.kind = "document"
                    /\ http_response[svc].body.document \in RecordsOfChannel
            /\ http_response[svc].status = 500
                 => http_response[svc].body.kind = "error"
            /\ RecordsOfChannel = {} => http_response[svc].status = 500
       /\ (\A svc \in {"api", "DB_data_api"} : http_response[svc].status = 200)
            => http_response["api"].body = http_response["DB_data_api"].body

(***************************************************************************)
(* C13: a session acquired while handling a request is released before the *)
(* response is returned, on the success path and on every error path; no   *)
(* request ends with a session open, and a session is released only after  *)
(* it was acquired, and once.                                              *)
(***************************************************************************)
C13_SessionReleasedBeforeResponse ==
    /\ [](/\ handler["api"] = "responded" => session # "open"
          /\ session = "open" => handler["api"] = "execute"
          /\ \A svc \in {"api", "DB_data_api"} :
               Len(SelectSeq(db_calls[svc], LAMBDA c : c = "shutdown")) =
                   (IF svc = "api" /\ session = "shutdown" THEN 1 ELSE 0))
    /\ [][/\ session' = "shutdown" /\ session # "shutdown" => session = "open"
          /\ session' = "open" /\ session # "open" => session = "None"
          /\ session = "shutdown" => session' = "shutdown"]_vars

\* the query failed after the session was opened, and the session was shut down
C13_Witness ==
    /\ handler["api"] = "responded"
    /\ http_response["api"] = ErrorResponse("execute", 500)
    /\ db_calls["api"] = <<"connect", "execute", "shutdown">>
    /\ session = "shutdown"

(***************************************************************************)
(* C14: after main has stopped on no channel ID or on an empty video list, *)
(* its last message is the failure message, no CSV was written, the        *)
(* analysis was not run and main did not raise; it stops there whenever    *)
(* no channel ID was resolved or the list is empty; and the rows are in    *)
(* the CSV before analyze_and_print_stats starts, so that they are still   *)
(* there when the analysis fails.                                          *)
(***************************************************************************)
C14_CsvBeforeAnalysis ==
    /\ [](/\ pc = "stopped"
               => /\ printed[Len(printed)] \in {"Could not find channel ID", "No videos found"}
                  /\ csv = "None"
                  /\ analysis = "none"
                  /\ ~raised
          /\ (pc # "main" /\ (channel_id.none \/ Len(channel_id.str) = 0))
               => pc = "stopped"
          /\ (pc \in {"saved", "done"} \/ csv # "None" \/ analysis # "none")
               => Len(videos) > 0
          /\ analysis # "none" => csv = videos)
    /\ [][analysis' # analysis => (csv # "None" /\ csv = videos /\ csv' = csv)]_vars

\* the analysis failed and the rows are in the CSV
C14_Witness ==
    /\ pc = "done"
    /\ analysis = "raised"
    /\ raised
    /\ csv = videos
    /\ Len(csv) = 2

(***************************************************************************)
(* The abbreviation in the specification's words: the divisor and suffix   *)
(* of the largest threshold a number reaches.                              *)
(***************************************************************************)
DivisorOf(n) ==
    IF n >= 1000000000 THEN 1000000000 ELSE IF n >= 1000000 THEN 1000000 ELSE 1000

SuffixOf(n) == IF n >= 1000000000 THEN "B" ELSE IF n >= 1000000 THEN "M" ELSE "K"

AllDigits(str) == str # <<>> /\ \A i \in 1..Len(str) : IsDigit(str[i])

\* str is digits, a point, one digit and the suffix of n; the number before
\* the suffix is n over its divisor to the nearest tenth
AbbreviationOf(str, n) ==
    LET len == Len(str)
        whole == SubSeq(str, 1, len - 3)
        tenths == 10 * Int_(whole) + DigitVal(str[len - 1])
        unit == DivisorOf(n) \div 10
        off == tenths * unit - n
    IN  /\ len >= 4
        /\ str[len] = SuffixOf(n)
        /\ str[len - 2] = "."
        /\ IsDigit(str[len - 1])
        /\ AllDigits(whole)
        /\ (Len(whole) = 1 \/ whole[1] # "0")
        /\ 2 * off <= unit
        /\ 2 * off >= -unit

MantissaBelowThousand(str) == Len(str) - 3 <= 3

(***************************************************************************)
(* C15: for a non-negative integer num, format_number returns the decimal  *)
(* digits of num when num < 1000, and otherwise num over 1e3, 1e6 or 1e9   *)
(* with one decimal place and the suffix K, M or B of the largest          *)
(* threshold num reaches, the number before the suffix being below 1000.   *)
(***************************************************************************)
C15_AbbreviatedBelowThousand ==
    pc = "formatted"
    => IF num < 1000
       THEN /\ AllDigits(formatted)
            /\ Int_(formatted) = num
            /\ (Len(formatted) = 1 \/ formatted[1] # "0")
       ELSE /\ AbbreviationOf(formatted, num)
            /\ MantissaBelowThousand(formatted)

(***************************************************************************)
(* C16: analyze_channel counts every video in exactly one of the three     *)
(* type aggregates: over Video, Short and Live the counts, views, likes    *)
(* and comments add up to the overall total_videos, total_views,           *)
(* total_likes and total_comments, and all_videos (the video list) has     *)
(* total_videos entries; a list of one Short, one Video and one Live       *)
(* gives each type count 1 and that one video's numbers as its totals.     *)
(***************************************************************************)
SumOverTypes(field) ==
    content_type_stats["Video"][field] + content_type_stats["Short"][field]
        + content_type_stats["Live"][field]

IndicesOfType(t) == {i \in 1..Len(videos) : videos[i].type = t}

C16_AggregatesConserveTotals ==
    pc = "analyzed"
    => /\ SumOverTypes("count") = total_stats.total_videos
       /\ SumOverTypes("total_views") = total_stats.total_views
       /\ SumOverTypes("total_likes") = total_stats.total_likes
       /\ SumOverTypes("total_comments") = total_stats.total_comments
       /\ Len(videos) = total_stats.total_videos
       /\ \A t \in {"Video", "Short", "Live"} :
            /\ content_type_stats[t].count = Cardinality(IndicesOfType(t))
            /\ \A i \in IndicesOfType(t) :
                 Cardinality(IndicesOfType(t)) = 1
                 => /\ content_type_stats[t].total_views = videos[i].views
                    /\ content_type_stats[t].total_likes = videos[i].likes
                    /\ content_type_stats[t].total_comments = videos[i].comments

\* one Short, one Video and one Live, with likes and comments among them
C16_Witness ==
    /\ pc = "analyzed"
    /\ Len(videos) = 3
    /\ videos[1].type = "Short" /\ videos[2].type = "Video" /\ videos[3].type = "Live"
    /\ \A t \in Types : content_type_stats[t].count = 1
    /\ content_type_stats["Short"].total_likes = 1
    /\ content_type_stats["Live"].total_comments = 1
    /\ total_stats.total_views = 5

=============================================================================
